---- MODULE Spec2Model ----
(***************************************************************************)
(* Model of src/main.py: the postal-key dedup of extract_address_info and  *)
(* the per-domain loop of main.  Texts are sequences of one-character      *)
(* strings, so that the regular expression, strip(), the substring test    *)
(* and difflib's SequenceMatcher.ratio() are computed on characters.       *)
(***************************************************************************)
EXTENDS Integers, Sequences, FiniteSets, TLC

VARIABLES
    \* extract_address_info(url)
    response,              \* what requests.get / find_address_element give for the url
    pc,                    \* position inside extract_address_info
    idx,                   \* position of the for loop of line 117
    addresses_by_postal,   \* the dict of line 116, in insertion order
    returned,              \* the value returned by extract_address_info
    \* main()
    websites,              \* df['domain'].tolist()
    i,                     \* number of domains the for loop of line 189 has taken
    main_pc,               \* "loop", "done", or "crashed" on an uncaught exception
    addressWebsiteFoundCounter,
    addressWebsiteNotFoundCounter,
    found_addresses,
    addresses_not_found,
    found_csv,             \* found_addresses.csv
    not_found_csv,         \* addresses_not_found.csv
    calls,                 \* the calls of extract_address_info made at line 191
    reports                \* the calls of found_percentage made at lines 217 and 227

extract_vars == <<response, pc, idx, addresses_by_postal, returned>>
main_vars == <<websites, i, main_pc, addressWebsiteFoundCounter,
               addressWebsiteNotFoundCounter, found_addresses,
               addresses_not_found, found_csv, not_found_csv, calls, reports>>
vars == <<extract_vars, main_vars>>

\* Bounds of the model.
MaxFrags == 3      \* elements on one page
MaxDomains == 2    \* domains in the input list

-----------------------------------------------------------------------------
(* Characters and texts *)

Upper == {"A","B","C","D","E","F","G","H","I","J","K","L","M",
          "N","O","P","Q","R","S","T","U","V","W","X","Y","Z"}
Lower == {"a","b","c","d","e","f","g","h","i","j","k","l","m",
          "n","o","p","q","r","s","t","u","v","w","x","y","z"}
Digit == {"0","1","2","3","4","5","6","7","8","9"}
Whitespace == {" ", "\n", "\t", "\r"}
WordChar == Upper \cup Lower \cup Digit \cup {"_"}

\* The texts of the elements a page can hold.
Elements ==
    { <<"i","l"," ","6","2","7","0","1">>,
      <<"I","L"," ","6","2","7","0","1">>,
      <<"A"," ","I","L"," ","6","2","7","0","1"," ">>,
      <<"O","a","k"," ","I","L"," ","6","2","7","0","1">>,
      <<"E","l","m"," ","I","L"," ","6","2","7","0","1">>,
      <<"I","L","\n","6","2","7","0","1">>,
      <<"O","a","k"," ","I","L","\n","6","2","7","0","1">>,
      <<"N","Y"," ","1","0","0","0","1">>,
      <<"I","L"," ","6","2","7","0","1"," ","a"," ","b","a">>,
      <<"I","L"," ","6","2","7","0","1"," ","b"," ","a">> }

\* str.strip(): drop leading and trailing whitespace.
Strip(s) ==
    LET keep == {p \in 1..Len(s) : s[p] \notin Whitespace}
    IN  IF keep = {} THEN <<>>
        ELSE LET lo == CHOOSE p \in keep : \A q \in keep : p <= q
                 hi == CHOOSE p \in keep : \A q \in keep : q <= p
             IN  SubSeq(s, lo, hi)

\* Position of the first match of \b[A-Z]{2}\s\d{5}\b in s, 0 when none.
PostalMatchesAt(s, p) ==
    /\ p + 7 <= Len(s)
    /\ s[p] \in Upper /\ s[p+1] \in Upper
    /\ s[p+2] \in Whitespace
    /\ \A d \in 3..7 : s[p+d] \in Digit
    /\ (p = 1 \/ s[p-1] \notin WordChar)
    /\ (p + 7 = Len(s) \/ s[p+8] \notin WordChar)

PostalSearch(s) ==
    LET hits == {p \in 1..Len(s) : PostalMatchesAt(s, p)}
    IN  IF hits = {} THEN 0
        ELSE CHOOSE p \in hits : \A q \in hits : p <= q

\* re.sub(r'\s+', ' ', postal_code).strip()
RECURSIVE CollapseWhitespace(_)
CollapseWhitespace(s) ==
    IF s = <<>> THEN <<>>
    ELSE IF Head(s) \in Whitespace
         THEN IF Len(s) > 1 /\ s[2] \in Whitespace
              THEN CollapseWhitespace(Tail(s))
              ELSE <<" ">> \o CollapseWhitespace(Tail(s))
         ELSE <<Head(s)>> \o CollapseWhitespace(Tail(s))

normalize_postal_code(postal_code) == Strip(CollapseWhitespace(postal_code))

\* addr in address_text
IsSubstring(addr, address_text) ==
    \E p \in 0..(Len(address_text) - Len(addr)) :
        \A q \in 1..Len(addr) : address_text[p+q] = addr[q]

-----------------------------------------------------------------------------
(* difflib.SequenceMatcher(None, a, b).ratio(), no junk, texts under 200   *)
(* characters (autojunk off): the longest matching block, earliest in a    *)
(* then earliest in b, then the same to its left and to its right.         *)

RECURSIVE RunLen(_,_,_,_,_,_)
RunLen(a, b, p, q, ahi, bhi) ==
    IF p <= ahi /\ q <= bhi /\ a[p] = b[q]
    THEN 1 + RunLen(a, b, p+1, q+1, ahi, bhi)
    ELSE 0

RECURSIVE Matched(_,_,_,_,_,_)
Matched(a, b, alo, ahi, blo, bhi) ==
    IF alo > ahi \/ blo > bhi THEN 0
    ELSE LET cells == (alo..ahi) \X (blo..bhi)
             size == [c \in cells |-> RunLen(a, b, c[1], c[2], ahi, bhi)]
             best == CHOOSE c \in cells :
                        \A d \in cells :
                            \/ size[d] < size[c]
                            \/ /\ size[d] = size[c]
                               /\ \/ c[1] < d[1]
                                  \/ c[1] = d[1] /\ c[2] <= d[2]
         IN  IF size[best] = 0 THEN 0
             ELSE size[best]
                  + Matched(a, b, alo, best[1] - 1, blo, best[2] - 1)
                  + Matched(a, b, best[1] + size[best], ahi,
                                  best[2] + size[best], bhi)

\* ratio() = 2.0 * M / T, and 1.0 when both texts are empty; ratio() > 0.8.
RatioAbove08(a, b) ==
    LET M == Matched(a, b, 1, Len(a), 1, Len(b))
        T == Len(a) + Len(b)
    IN  IF T = 0 THEN TRUE ELSE 5 * M > 2 * T

-----------------------------------------------------------------------------
(* extract_address_info: the dedup of lines 116-143 *)

\* address_text of line 118 for every element a page can hold.
Fragments == {Strip(e) : e \in Elements}

\* ratio() > 0.8 for every pair of texts, tabulated once.
RatioTable ==
    [p \in Fragments \X Fragments |-> RatioAbove08(p[1], p[2])] @@ <<>>

\* line 127-129: SequenceMatcher(None, address_text, addr).ratio() > 0.8
Similar(address_text, addr) == RatioTable[<<address_text, addr>>]

\* The comparison of line 130 turned round.
KeepsShorter(address_text, addr) == Len(address_text) < Len(addr)

\* line 130: the new text replaces the survivor only when strictly longer.
KeepsNew(address_text, addr) == Len(address_text) > Len(addr)

\* The substring test of line 135 with its operands exchanged.
SupersedesSwapped(address_text, addr) == IsSubstring(address_text, addr)

\* line 135: the survivor is a literal substring of the new text.
Supersedes(address_text, addr) == IsSubstring(addr, address_text)

\* lines 125-138.  The for loop walks a copy of the set; the order in which a
\* Python set of str is walked changes with the hash seed of the process, so
\* every order is possible.  todo holds the members of the copy not yet
\* visited; the result is the set of values the survivor set can end with.
RECURSIVE Visit(_,_,_)
Visit(todo, addresses, address_text) ==
    IF todo = {} THEN {addresses \cup {address_text}}
    ELSE UNION {
        IF Similar(address_text, addr)
        THEN IF KeepsNew(address_text, addr)
             THEN Visit(todo \ {addr}, addresses \ {addr}, address_text)
             ELSE {addresses}
        ELSE IF Supersedes(address_text, addr)
             THEN Visit(todo \ {addr}, addresses \ {addr}, address_text)
             ELSE Visit(todo \ {addr}, addresses, address_text)
        : addr \in todo }

InsertOutcomes(addresses, address_text) ==
    Visit(addresses, addresses, address_text)

\* The dict is a sequence of entries in insertion order.
KeyIndex(abp, postal_code) ==
    LET at == {k \in 1..Len(abp) : abp[k].postal_code = postal_code}
    IN  IF at = {} THEN 0 ELSE CHOOSE k \in at : TRUE

\* lines 118-121: the key of an element's text, <<>> when it has none.
PostalKey(address_text) ==
    LET m == PostalSearch(address_text)
    IN  IF m = 0 THEN <<>>
        ELSE normalize_postal_code(SubSeq(address_text, m, m + 7))

\* Strip and PostalKey tabulated over the texts a page can hold.
TextTable == [e \in Elements \cup Fragments |-> Strip(e)] @@ <<>>
KeyTable == [t \in Fragments |-> PostalKey(t)] @@ <<>>

\* lines 118-138: one iteration of the loop over address_elements.
InsertFragment(abp, element) ==
    LET address_text == TextTable[element]
        postal_code == KeyTable[address_text]
    IN  IF postal_code = <<>> THEN {abp}
        ELSE LET created == IF KeyIndex(abp, postal_code) = 0
                            THEN Append(abp, [postal_code |-> postal_code,
                                              addresses |-> {}])
                            ELSE abp
                 k == KeyIndex(created, postal_code)
             IN  {[created EXCEPT ![k].addresses = out] :
                    out \in InsertOutcomes(created[k].addresses, address_text)}

RECURSIVE LoopOutcomes(_,_,_)
LoopOutcomes(abp, elements, n) ==
    IF n > Len(elements) THEN {abp}
    ELSE UNION {LoopOutcomes(next, elements, n + 1) :
                    next \in InsertFragment(abp, elements[n])}

\* What extract_address_info returns: None, or a dict.
NoneValue == [none |-> TRUE, items |-> <<>>]
Mapping(items) == [none |-> FALSE, items |-> items]

\* min in place of max at line 141.
ShortestMembers(addresses) ==
    {a \in addresses : \A b \in addresses : Len(a) <= Len(b)}

\* line 141: max(addresses, key=len) returns the first longest member in the
\* iteration order of the set, so any longest member.
LongestMembers(addresses) ==
    {a \in addresses : \A b \in addresses : Len(b) <= Len(a)}

\* Lines 140-142 left out: the survivor sets are returned as they are.
CollapseSkipped(abp) == {Mapping(abp)}

\* lines 140-143; max() of an empty set raises ValueError, which line 151
\* turns into None.
CollapseOutcomes(abp) ==
    IF \E k \in 1..Len(abp) : abp[k].addresses = {}
    THEN {NoneValue}
    ELSE {Mapping([k \in 1..Len(abp) |->
                     [postal_code |-> abp[k].postal_code,
                      addresses |-> {pick[k]}]]) :
            pick \in {f \in [1..Len(abp) -> Fragments] :
                        \A k \in 1..Len(abp) :
                            f[k] \in LongestMembers(abp[k].addresses)}}

\* The outcomes of requests.get followed by find_address_element.
Pages == UNION {[1..n -> Elements] : n \in 0..MaxFrags}
Responses ==
    {[kind |-> "error", status |-> 0, elements |-> <<>>]}
    \cup {[kind |-> "http", status |-> s, elements |-> <<>>] : s \in {404, 500}}
    \cup {[kind |-> "http", status |-> 200, elements |-> p] : p \in Pages}

\* lines 116-143: the dedup of a sequence of element texts.
DedupOutcomes(elements) ==
    UNION {CollapseOutcomes(abp) : abp \in LoopOutcomes(<<>>, elements, 1)}

\* lines 103-153 as a whole.
ExtractOutcomes(r) ==
    IF r.kind = "error" THEN {NoneValue}
    ELSE IF r.status # 200 THEN {NoneValue}
    ELSE IF r.elements = <<>> THEN {NoneValue}
    ELSE DedupOutcomes(r.elements)

\* The branch of extract_address_info a response takes.
Cause(r) ==
    IF r.kind = "error" THEN "raised"
    ELSE IF r.status # 200 THEN "status"
    ELSE IF r.elements = <<>> THEN "no_element"
    ELSE IF \A n \in 1..Len(r.elements) : KeyTable[TextTable[r.elements[n]]] = <<>>
         THEN "no_postal"
         ELSE "ok"

InitExtract ==
    /\ response \in Responses
    /\ pc = "fetch"
    /\ idx = 0
    /\ addresses_by_postal = <<>>
    /\ returned = NoneValue
    /\ websites = <<>>
    /\ i = 0
    /\ main_pc = "idle"
    /\ addressWebsiteFoundCounter = 0
    /\ addressWebsiteNotFoundCounter = 0
    /\ found_addresses = <<>>
    /\ addresses_not_found = <<>>
    /\ found_csv = [written |-> FALSE, rows |-> <<>>]
    /\ not_found_csv = [written |-> FALSE, rows |-> <<>>]
    /\ calls = <<>>
    /\ reports = <<>>

\* lines 107, 151-153: requests.get raises.
FetchRaises ==
    /\ pc = "fetch"
    /\ response.kind = "error"
    /\ pc' = "returned"
    /\ returned' = NoneValue
    /\ UNCHANGED <<response, idx, addresses_by_postal, main_vars>>

\* lines 109, 148-150: the status is not 200.
FetchFails ==
    /\ pc = "fetch"
    /\ response.kind = "http" /\ response.status # 200
    /\ pc' = "returned"
    /\ returned' = NoneValue
    /\ UNCHANGED <<response, idx, addresses_by_postal, main_vars>>

\* lines 113-115, 145-147: no address element on the page.
NoElements ==
    /\ pc = "fetch"
    /\ response.kind = "http" /\ response.status = 200
    /\ response.elements = <<>>
    /\ pc' = "returned"
    /\ returned' = NoneValue
    /\ UNCHANGED <<response, idx, addresses_by_postal, main_vars>>

\* lines 113-116: elements found, the dict is created.
StartLoop ==
    /\ pc = "fetch"
    /\ response.kind = "http" /\ response.status = 200
    /\ response.elements # <<>>
    /\ pc' = "loop"
    /\ idx' = 1
    /\ addresses_by_postal' = <<>>
    /\ UNCHANGED <<response, returned, main_vars>>

\* lines 117-138: one element.
Iterate ==
    /\ pc = "loop"
    /\ addresses_by_postal' \in
           InsertFragment(addresses_by_postal, response.elements[idx])
    /\ idx' = idx + 1
    /\ pc' = IF idx = Len(response.elements) THEN "collapse" ELSE "loop"
    /\ UNCHANGED <<response, returned, main_vars>>

\* lines 140-143: every survivor set becomes {max}, and the dict is returned.
Collapse ==
    /\ pc = "collapse"
    /\ \E out \in CollapseOutcomes(addresses_by_postal) :
          /\ returned' = out
          /\ addresses_by_postal' =
                 IF out.none THEN addresses_by_postal ELSE out.items
    /\ pc' = "returned"
    /\ UNCHANGED <<response, idx, main_vars>>

NextExtract ==
    \/ FetchRaises
    \/ FetchFails
    \/ NoElements
    \/ StartLoop
    \/ Iterate
    \/ Collapse

SpecExtract == InitExtract /\ [][NextExtract]_vars

-----------------------------------------------------------------------------
(* main: the loop over the domains, lines 183-230.  The parsed fields of a *)
(* row (parse_address) are left out: a row is its domain and postal code.  *)

Domains == {"a.com", "b.org"}

\* Every (branch, return value) pair extract_address_info can produce.
ExtractCases ==
    UNION {{[cause |-> Cause(r), returned |-> out] : out \in ExtractOutcomes(r)} :
              r \in Responses}

\* lines 155-160: awfc / (awfc + awnfc) * 100 formatted with two decimals,
\* as hundredths of a percent; the division raises ZeroDivisionError.
found_percentage(awfc, awnfc) ==
    IF awfc + awnfc = 0
    THEN [raised |-> TRUE, hundredths |-> 0]
    ELSE LET total == awfc + awnfc
             q == (10000 * awfc) \div total
             r == (10000 * awfc) % total
         IN  [raised |-> FALSE,
              hundredths |-> IF 2 * r > total \/ (2 * r = total /\ q % 2 = 1)
                             THEN q + 1 ELSE q]

\* to_csv opened in append mode.
save_appending(addresses, file) ==
    [written |-> TRUE, rows |-> file.rows \o addresses]

\* lines 163-176: DataFrame(addresses).to_csv(filename) replaces the file.
save_addresses_to_csv(addresses, file) ==
    [written |-> TRUE, rows |-> addresses]

\* `is not None` in place of truthiness at line 192.
TruthyNotNone(value) == ~value.none

\* line 192: `if addresses_by_postal:` is false for None and for {}.
Truthy(value) == ~value.none /\ value.items # <<>>

\* The increment of line 194 moved into the loop over the addresses.
CountFoundPerAddress(counter, value) == counter + Len(value.items)

\* line 194
CountFound(counter, value) == counter + 1

\* The increment of line 222 left out.
CountNotFoundMissing(counter) == counter

\* line 222
CountNotFound(counter) == counter + 1

\* The append of lines 203-211 dedented out of the two loops: last row only.
RowsForLastOnly(domain, items) ==
    IF items = <<>> THEN <<>>
    ELSE <<[domain |-> domain,
            postal_code |-> items[Len(items)].postal_code]>>

\* lines 195-211: one row per address of each entry, in dict order.
RECURSIVE RowsFor(_,_)
RowsFor(domain, items) ==
    IF items = <<>> THEN <<>>
    ELSE [n \in 1..Cardinality(Head(items).addresses) |->
             [domain |-> domain, postal_code |-> Head(items).postal_code]]
         \o RowsFor(domain, Tail(items))

\* lines 203-218 repeated for every row: append, report, save.
RECURSIVE SaveEach(_,_,_)
SaveEach(file, list, rows) ==
    IF rows = <<>> THEN file
    ELSE SaveEach(save_addresses_to_csv(Append(list, Head(rows)), file),
                  Append(list, Head(rows)), Tail(rows))

Init ==
    /\ websites \in UNION {[1..n -> Domains] : n \in 0..MaxDomains}
    /\ i = 0
    /\ main_pc = "loop"
    /\ addressWebsiteFoundCounter = 0
    /\ addressWebsiteNotFoundCounter = 0
    /\ found_addresses = <<>>
    /\ addresses_not_found = <<>>
    /\ found_csv = [written |-> FALSE, rows |-> <<>>]
    /\ not_found_csv = [written |-> FALSE, rows |-> <<>>]
    /\ calls = <<>>
    /\ reports = <<>>
    /\ response = [kind |-> "error", status |-> 0, elements |-> <<>>]
    /\ pc = "idle"
    /\ idx = 0
    /\ addresses_by_postal = <<>>
    /\ returned = NoneValue

\* lines 192-218: the domain has addresses.
ScrapeFound ==
    /\ main_pc = "loop"
    /\ i < Len(websites)
    /\ \E c \in ExtractCases :
        LET domain == websites[i + 1]
            awfc == CountFound(addressWebsiteFoundCounter, c.returned)
            rows == RowsFor(domain, c.returned.items)
            pct == found_percentage(awfc, addressWebsiteNotFoundCounter)
            report == [awfc |-> awfc, awnfc |-> addressWebsiteNotFoundCounter,
                       result |-> pct]
        IN  /\ Truthy(c.returned)
            /\ calls' = Append(calls, [domain |-> domain, cause |-> c.cause,
                                       returned |-> c.returned])
            /\ addressWebsiteFoundCounter' = awfc
            /\ IF rows # <<>> /\ pct.raised
               THEN /\ found_addresses' = Append(found_addresses, rows[1])
                    /\ reports' = Append(reports, report)
                    /\ found_csv' = found_csv
                    /\ main_pc' = "crashed"
                    /\ i' = i
               ELSE /\ found_addresses' = found_addresses \o rows
                    /\ reports' = reports \o [n \in 1..Len(rows) |-> report]
                    /\ found_csv' = SaveEach(found_csv, found_addresses, rows)
                    /\ main_pc' = "loop"
                    /\ i' = i + 1
    /\ UNCHANGED <<websites, addressWebsiteNotFoundCounter, addresses_not_found,
                   not_found_csv, extract_vars>>

\* lines 220-229: the domain has none.
ScrapeNotFound ==
    /\ main_pc = "loop"
    /\ i < Len(websites)
    /\ \E c \in ExtractCases :
        LET domain == websites[i + 1]
            awnfc == CountNotFound(addressWebsiteNotFoundCounter)
            pct == found_percentage(addressWebsiteFoundCounter, awnfc)
            list == Append(addresses_not_found, [domain |-> domain])
        IN  /\ ~Truthy(c.returned)
            /\ calls' = Append(calls, [domain |-> domain, cause |-> c.cause,
                                       returned |-> c.returned])
            /\ addressWebsiteNotFoundCounter' = awnfc
            /\ reports' = Append(reports,
                                 [awfc |-> addressWebsiteFoundCounter,
                                  awnfc |-> awnfc, result |-> pct])
            /\ IF pct.raised
               THEN /\ addresses_not_found' = addresses_not_found
                    /\ not_found_csv' = not_found_csv
                    /\ main_pc' = "crashed"
                    /\ i' = i
               ELSE /\ addresses_not_found' = list
                    /\ not_found_csv' = save_addresses_to_csv(list, not_found_csv)
                    /\ main_pc' = "loop"
                    /\ i' = i + 1
    /\ UNCHANGED <<websites, addressWebsiteFoundCounter, found_addresses,
                   found_csv, extract_vars>>

\* line 189: the list is exhausted and main returns.
Finish ==
    /\ main_pc = "loop"
    /\ i = Len(websites)
    /\ main_pc' = "done"
    /\ UNCHANGED <<websites, i, addressWebsiteFoundCounter,
                   addressWebsiteNotFoundCounter, found_addresses,
                   addresses_not_found, found_csv, not_found_csv, calls,
                   reports, extract_vars>>

Next ==
    \/ ScrapeFound
    \/ ScrapeNotFound
    \/ Finish

Spec == Init /\ [][Next]_vars

\* The loop is sequential code: it keeps running while it can take a step.
FairSpec == Spec /\ WF_vars(Next)

-----------------------------------------------------------------------------
(* Properties of extract_address_info, checked under SpecExtract *)

\* The texts of the elements the loop of line 117 has already taken.
Processed ==
    {Strip(response.elements[n]) : n \in 1..(idx - 1)}

\* A page of exactly two element texts with one postal key.
TwoOfOneKey ==
    /\ response.kind = "http" /\ response.status = 200
    /\ Len(response.elements) = 2
    /\ PostalKey(Strip(response.elements[1])) # <<>>
    /\ PostalKey(Strip(response.elements[1])) = PostalKey(Strip(response.elements[2]))

First == Strip(response.elements[1])
Second == Strip(response.elements[2])

StrictlyNested(a, b) == a # b /\ (IsSubstring(a, b) \/ IsSubstring(b, a))

LongerOf(a, b) == IF Len(b) > Len(a) THEN b ELSE a

C1_SurvivorsHold ==
    /\ \A k \in 1..Len(addresses_by_postal) :
          /\ addresses_by_postal[k].addresses # {}
          /\ \A a \in addresses_by_postal[k].addresses :
                /\ a \in Processed
                /\ PostalKey(a) = addresses_by_postal[k].postal_code
          /\ \A l \in 1..Len(addresses_by_postal) :
                addresses_by_postal[l].postal_code
                    = addresses_by_postal[k].postal_code => l = k
    /\ (pc = "returned" /\ ~returned.none) =>
          /\ returned.items = addresses_by_postal
          /\ \A k \in 1..Len(returned.items) :
                Cardinality(returned.items[k].addresses) = 1

C1_CollapseStep ==
    pc = "collapse" =>
        /\ ~returned'.none
        /\ Len(returned'.items) = Len(addresses_by_postal)
        /\ \A k \in 1..Len(addresses_by_postal) :
              /\ returned'.items[k].postal_code = addresses_by_postal[k].postal_code
              /\ \E m \in addresses_by_postal[k].addresses :
                    /\ returned'.items[k].addresses = {m}
                    /\ \A b \in addresses_by_postal[k].addresses : Len(b) <= Len(m)

\* C1: after every element the loop has taken, every survivor set of the dict
\* is non-empty and holds only processed texts whose normalized postal code is
\* its key; the collapse maps every key to a singleton whose member is a
\* longest member of the key's survivor set, and that dict is what is returned.
C1_OneCanonicalPerKey == []C1_SurvivorsHold /\ [][C1_CollapseStep]_vars

\* A page of three elements gave a dict of two keys.
C1_Witness ==
    /\ pc = "returned" /\ ~returned.none
    /\ Len(response.elements) = 3
    /\ Len(returned.items) = 2

\* C2: for a page of two texts with one postal key, one a strict substring of
\* the other, the address returned for the key is the longer text, in either
\* order of arrival and on either side of the 0.8 threshold.
C2_LongerOfNestedPair ==
    (pc = "returned" /\ TwoOfOneKey /\ StrictlyNested(First, Second)) =>
        returned = Mapping(<<[postal_code |-> PostalKey(First),
                              addresses |-> {LongerOf(First, Second)}]>>)

\* The longer text came first and the shorter one is not similar to it.
C2_Witness ==
    /\ pc = "returned" /\ TwoOfOneKey /\ StrictlyNested(First, Second)
    /\ Len(First) > Len(Second)
    /\ ~RatioAbove08(Second, First)

NoPairSimilarEitherWay ==
    \A k \in 1..Len(addresses_by_postal) :
        \A x, y \in addresses_by_postal[k].addresses :
            x # y => ~(RatioAbove08(x, y) \/ RatioAbove08(y, x))

NoPairSimilarBothWays ==
    \A k \in 1..Len(addresses_by_postal) :
        \A x, y \in addresses_by_postal[k].addresses :
            x # y => ~(RatioAbove08(x, y) /\ RatioAbove08(y, x))

OnlySurvivor(a) ==
    addresses_by_postal = <<[postal_code |-> PostalKey(a), addresses |-> {a}]>>

\* C3 as stated: with similarity read as a symmetric relation, of two texts
\* of one key with similarity above 0.8 only the longer (the first when equal
\* in length) is in the survivor set after both are inserted, and no two
\* members of a survivor set are ever similar.
C3_SymmetricSimilarity ==
    pc \in {"loop", "collapse"} =>
        /\ NoPairSimilarEitherWay
        /\ (pc = "collapse" /\ TwoOfOneKey
              /\ (RatioAbove08(First, Second) \/ RatioAbove08(Second, First)))
           => OnlySurvivor(LongerOf(First, Second))

\* C3 amended: the similarity is the ratio with the arriving text as the first
\* argument and the survivor as the second.  Of two texts of one key where
\* that ratio is above 0.8 only the longer (the first when equal in length) is
\* in the survivor set after both are inserted, and no two members of a
\* survivor set are similar in both directions.
C3_DirectedSimilarity ==
    pc \in {"loop", "collapse"} =>
        /\ NoPairSimilarBothWays
        /\ (pc = "collapse" /\ TwoOfOneKey /\ RatioAbove08(Second, First))
           => OnlySurvivor(LongerOf(First, Second))

\* Two distinct similar texts of equal length: the first one stays.
C3_Witness ==
    /\ pc = "collapse" /\ TwoOfOneKey
    /\ First # Second
    /\ Len(First) = Len(Second)
    /\ RatioAbove08(Second, First)
    /\ OnlySurvivor(First)

CanonicalStrings(items) ==
    UNION {items[k].addresses : k \in 1..Len(items)}

Orderings(S) ==
    {f \in [1..Cardinality(S) -> S] :
        \A m, n \in 1..Cardinality(S) : f[m] = f[n] => m = n}

AsMapping(value) ==
    {<<value.items[k].postal_code, value.items[k].addresses>> :
        k \in 1..Len(value.items)}

\* C4: the dedup of the canonical strings of a returned dict, taken in any
\* order, gives the same keys with the same canonical string each.
C4_Idempotent ==
    (pc = "returned" /\ ~returned.none) =>
        \A again \in Orderings(CanonicalStrings(returned.items)) :
            \A out \in DedupOutcomes(again) :
                ~out.none /\ AsMapping(out) = AsMapping(returned)

\* Two keys were returned and a text with a postal code was merged away.
C4_Witness ==
    /\ pc = "returned" /\ ~returned.none
    /\ Len(returned.items) = 2
    /\ \E n \in 1..Len(response.elements) :
          /\ PostalKey(Strip(response.elements[n])) # <<>>
          /\ Strip(response.elements[n]) \notin CanonicalStrings(returned.items)

\* C10: the dict returned for a page is the only one the function can return
\* for it: another run on the same elements returns the same canonical string
\* for every key, whatever the iteration order of the survivor sets.
C10_Deterministic ==
    pc = "returned" =>
        \A out \in ExtractOutcomes(response) : out = returned

-----------------------------------------------------------------------------
(* Properties of main, checked under Spec and FairSpec *)

IsNonEmptyMapping(value) == ~value.none /\ Len(value.items) > 0

FoundCalls == {n \in 1..Len(calls) : IsNonEmptyMapping(calls[n].returned)}

IsPrefix(s, t) == Len(s) <= Len(t) /\ SubSeq(t, 1, Len(s)) = s

\* A step of the loop that took one more domain.
TookDomain == Len(calls') = Len(calls) + 1

LastCall == calls'[Len(calls')]

C5_CountersMatch ==
    /\ main_pc # "crashed"
    /\ Len(calls) = i
    /\ addressWebsiteFoundCounter + addressWebsiteNotFoundCounter = i
    /\ addressWebsiteFoundCounter = Cardinality(FoundCalls)

C5_CounterStep ==
    /\ addressWebsiteFoundCounter' >= addressWebsiteFoundCounter
    /\ addressWebsiteNotFoundCounter' >= addressWebsiteNotFoundCounter
    /\ TookDomain =>
          \/ /\ addressWebsiteFoundCounter' = addressWebsiteFoundCounter + 1
             /\ addressWebsiteNotFoundCounter' = addressWebsiteNotFoundCounter
          \/ /\ addressWebsiteFoundCounter' = addressWebsiteFoundCounter
             /\ addressWebsiteNotFoundCounter' = addressWebsiteNotFoundCounter + 1

\* C5: after k domains the two counters add up to k and the found counter is
\* the number of domains whose dict was non-empty; a domain changes exactly
\* one counter, by one, and no counter ever goes down.
C5_OneCountPerDomain == []C5_CountersMatch /\ [][C5_CounterStep]_vars

\* Two domains, one of them found with two postal codes.
C5_Witness ==
    /\ i = 2
    /\ addressWebsiteFoundCounter = 1
    /\ addressWebsiteNotFoundCounter = 1
    /\ \E n \in FoundCalls : Len(calls[n].returned.items) = 2

\* C6: a domain whose dict is non-empty appends one row per key of the dict,
\* in order, and nothing to addresses_not_found; no step changes or removes a
\* row appended before.
C6_OneRowPerKey ==
    [][ /\ IsPrefix(found_addresses, found_addresses')
        /\ IsPrefix(addresses_not_found, addresses_not_found')
        /\ (TookDomain /\ IsNonEmptyMapping(LastCall.returned)) =>
              /\ addresses_not_found' = addresses_not_found
              /\ Len(found_addresses') =
                     Len(found_addresses) + Len(LastCall.returned.items)
              /\ \A k \in 1..Len(LastCall.returned.items) :
                    found_addresses'[Len(found_addresses) + k] =
                        [domain |-> LastCall.domain,
                         postal_code |-> LastCall.returned.items[k].postal_code]
      ]_vars

\* The second domain added two rows, one per postal code, after the first's.
C6_Witness ==
    /\ i = 2
    /\ Len(found_addresses) = 3
    /\ IsNonEmptyMapping(calls[2].returned)
    /\ Len(calls[2].returned.items) = 2
    /\ found_addresses[2].postal_code # found_addresses[3].postal_code
    /\ found_addresses[2].domain = websites[2]

NotFoundCauses == {"raised", "status", "no_element", "no_postal"}

C7_NotFoundStep ==
    (TookDomain /\ LastCall.cause \in NotFoundCauses) =>
        /\ LastCall.domain = websites[i + 1]
        /\ addressWebsiteNotFoundCounter' = addressWebsiteNotFoundCounter + 1
        /\ addressWebsiteFoundCounter' = addressWebsiteFoundCounter
        /\ addresses_not_found' =
               Append(addresses_not_found, [domain |-> websites[i + 1]])
        /\ found_addresses' = found_addresses
        /\ i' = i + 1
        /\ main_pc' = "loop"

C7_AllProcessed ==
    /\ main_pc = "done"
    /\ [n \in 1..Len(calls) |-> calls[n].domain] = websites

\* C7: a domain whose fetch raises, whose status is not 200, whose page has no
\* candidate element or whose candidates all lack a postal code adds one to
\* the not-found counter and one row to addresses_not_found, adds nothing to
\* found_addresses, and the loop goes on; the run ends having taken every
\* domain of the list once, in order.
C7_NotFoundAndGoOn == [][C7_NotFoundStep]_vars /\ <>C7_AllProcessed

\* A page without postal code, then a fetch that raised, and the run ended.
C7_Witness ==
    /\ main_pc = "done"
    /\ Len(calls) = 2
    /\ calls[1].cause = "no_postal"
    /\ calls[2].cause = "raised"
    /\ Len(addresses_not_found) = 2

\* C8 as stated: once a domain has been processed, both files hold the whole
\* of their lists.
C8_BothFilesCurrent ==
    i >= 1 =>
        /\ found_csv.written /\ found_csv.rows = found_addresses
        /\ not_found_csv.written /\ not_found_csv.rows = addresses_not_found

C8_FilesMatch ==
    /\ found_csv.written <=> found_addresses # <<>>
    /\ found_csv.written => found_csv.rows = found_addresses
    /\ not_found_csv.written <=> addresses_not_found # <<>>
    /\ not_found_csv.written => not_found_csv.rows = addresses_not_found

C8_WriteStep ==
    /\ found_csv' # found_csv =>
          found_csv' = [written |-> TRUE, rows |-> found_addresses']
    /\ not_found_csv' # not_found_csv =>
          not_found_csv' = [written |-> TRUE, rows |-> addresses_not_found']
    /\ TookDomain =>
          IF IsNonEmptyMapping(LastCall.returned)
          THEN found_csv' # found_csv /\ not_found_csv' = not_found_csv
          ELSE not_found_csv' # not_found_csv /\ found_csv' = found_csv

\* C8 amended: a domain rewrites only the file of its own outcome, with the
\* whole of the list accumulated so far (never an append).  At every domain
\* boundary a file that has been written holds the whole of its list, and a
\* file has not been written exactly while its list is empty.
C8_WrittenFilesCurrent == []C8_FilesMatch /\ [][C8_WriteStep]_vars

\* Two different domains, one found and one not: both files written.
C8_Witness ==
    /\ i = 2
    /\ found_csv.written
    /\ not_found_csv.written
    /\ websites[1] # websites[2]

\* C9: every call of found_percentage made by main has counters that add up
\* to at least 1 and returns a value, so main never stops on the division;
\* found_percentage(0, 0) raises.
C9_ReportNeverDividesByZero ==
    /\ main_pc # "crashed"
    /\ \A n \in 1..Len(reports) :
          /\ reports[n].awfc + reports[n].awnfc >= 1
          /\ ~reports[n].result.raised
    /\ found_percentage(0, 0).raised

\* The first report of a run, after a domain without address: 0.00%.
C9_Witness ==
    /\ Len(reports) >= 2
    /\ reports[1].awfc = 0 /\ reports[1].awnfc = 1
    /\ reports[1].result.hundredths = 0
    /\ reports[2].result.hundredths = 5000

====
